---- MODULE Spec2Model ----
(***************************************************************************)
(* Four programs of appleseed, each as a state machine with a specification *)
(* of its own:                                                             *)
(*   Spec        construction of the curve tree (CurveTree::CurveTree,     *)
(*               build_bvh and collect_curves);                            *)
(*   FluffySpec  make_fluffy of the makefluffy tool;                       *)
(*   SplitSpec   split_and_store of the makefluffy tool;                   *)
(*   ShaderSpec  the as_maya_tripleShadingSwitch shader.                   *)
(* The variables of the other programs keep their initial values in each   *)
(* specification.                                                          *)
(*                                                                         *)
(* The SAH partitioner, the BVH builder, small_item_reorder, the curve     *)
(* bounding box routine and the parameter store are declared outside the   *)
(* files at hand; they are modelled from the specification's component     *)
(* contracts (sections 4.2 to 4.5 and 6).                                  *)
(***************************************************************************)
EXTENDS Integers, Sequences, FiniteSets, TLC

VARIABLES
    assembly,           \* m_arguments.m_assembly.object_instances()
    algorithm_param,    \* the "algorithm" entry of the acceleration_structure parameters
    max_leaf_size,      \* the value of CurveTreeDefaultMaxLeafSize
    pc,                 \* position in the constructor
    error,              \* the exception that left the constructor, if any
    ci, cj,             \* the loop variables i and j of collect_curves
    m_curves3,          \* CurveTree::m_curves3
    m_curve_keys,       \* CurveTree::m_curve_keys
    collected,          \* history: the two arrays as collect_curves left them
    curve_bboxes,       \* the local vector of build_bvh
    order,              \* the partitioner's item ordering
    partitioner_max_leaf_size,  \* the maximum leaf size held by the partitioner
    m_nodes,            \* TreeType::m_nodes
    stack,              \* the builder's pending recursion frames
    statistics,         \* the names inserted in the Statistics object
    logged,             \* whether RENDERER_LOG_DEBUG has run
    steps               \* history: the pipeline steps performed, in order

VARIABLES
    f_objects,          \* make_fluffy: assembly.objects()
    f_instances,        \* assembly.object_instances()
    f_links,            \* objects_to_instances
    f_pc,               \* position in make_fluffy
    f_k,                \* position of the first loop in the object instances
    f_i, f_j,           \* the loop variables i and j
    f_curve_object,     \* the local curve_object
    f_initial,          \* history: the two containers as make_fluffy found them
    f_uid               \* the next unique id an entity is given

VARIABLES
    s_curve,            \* split_and_store: the curve of the outermost call
    s_split_count,      \* the split_count of the outermost call
    s_stack,            \* the activation records of split_and_store
    s_object,           \* the curves of the object
    s_before,           \* history: the curves of the object before the call
    s_pc,               \* position of the caller
    s_max_depth         \* history: the largest number of nested activations

VARIABLES
    in_inTriple,        \* as_maya_tripleShadingSwitch: the parameter in_inTriple
    in_inShape,         \* the parameter in_inShape
    in_default,         \* the parameter in_default
    object_name,        \* the attribute object:object_name, if it can be retrieved
    shape,              \* the local shape
    out_output,         \* the output parameter
    sh_i,               \* the loop variable i
    sh_pc,              \* position in the shader
    sh_reads            \* history: the indices at which in_inTriple was read

TreeVars == <<assembly, algorithm_param, max_leaf_size, pc, error, ci, cj, m_curves3,
              m_curve_keys, collected, curve_bboxes, order, partitioner_max_leaf_size,
              m_nodes, stack, statistics, logged, steps>>

FluffyVars == <<f_objects, f_instances, f_links, f_pc, f_k, f_i, f_j, f_curve_object,
                f_initial, f_uid>>

SplitVars == <<s_curve, s_split_count, s_stack, s_object, s_before, s_pc, s_max_depth>>

ShaderVars == <<in_inTriple, in_inShape, in_default, object_name, shape, out_output,
                sh_i, sh_pc, sh_reads>>

vars == <<TreeVars, FluffyVars, SplitVars, ShaderVars>>

\* The inputs of the construction and the variables of the other programs: no
\* action of the construction changes them.
InputVars == <<assembly, algorithm_param, max_leaf_size, FluffyVars, SplitVars, ShaderVars>>

\* The other programs have not started.
TreeIdle ==
    /\ assembly = <<>>
    /\ algorithm_param = "<absent>"
    /\ max_leaf_size = 0
    /\ pc = "idle"
    /\ error = "none"
    /\ ci = 0
    /\ cj = 0
    /\ m_curves3 = <<>>
    /\ m_curve_keys = <<>>
    /\ collected = [curves |-> <<>>, keys |-> <<>>]
    /\ curve_bboxes = <<>>
    /\ order = <<>>
    /\ partitioner_max_leaf_size = 0
    /\ m_nodes = <<>>
    /\ stack = <<>>
    /\ statistics = <<>>
    /\ logged = FALSE
    /\ steps = <<>>

FluffyIdle ==
    /\ f_objects = <<>>
    /\ f_instances = <<>>
    /\ f_links = <<>>
    /\ f_pc = "idle"
    /\ f_k = 0
    /\ f_i = 0
    /\ f_j = 0
    /\ f_curve_object = <<>>
    /\ f_initial = <<>>
    /\ f_uid = 0

SplitIdle ==
    /\ s_curve = <<>>
    /\ s_split_count = 0
    /\ s_stack = <<>>
    /\ s_object = <<>>
    /\ s_before = <<>>
    /\ s_pc = "idle"
    /\ s_max_depth = 0

ShaderIdle ==
    /\ in_inTriple = <<>>
    /\ in_inShape = <<>>
    /\ in_default = "black"
    /\ object_name = "<none>"
    /\ shape = ""
    /\ out_output = "black"
    /\ sh_i = 0
    /\ sh_pc = "idle"
    /\ sh_reads = {}

-----------------------------------------------------------------------------
(* Bounds and input domains *)

\* The largest number of object instances of an assembly.
MaxInstances == 3

\* GAABB3, BezierCurve3d: three dimensions.
Dimension == 3

Axes == 1..Dimension

Min(a, b) == IF a <= b THEN a ELSE b

Max(a, b) == IF a >= b THEN a ELSE b

\* A curve: control points and a width.
CurveA == [points |-> << <<0, 0, 0>>, <<1, 1, 1>> >>, width |-> 0]

CurveB == [points |-> << <<3, 0, 0>>, <<4, 2, 1>> >>, width |-> 1]

\* The transforms of the object instances: translations.
IdentityTransform == <<0, 0, 0>>

Transforms == { IdentityTransform, <<0, 0, 6>> }

MeshModel == "mesh_object"

\* The objects of the assembly an object instance may refer to.
ObjectCatalog ==
    { [name |-> "plane", model |-> MeshModel, curves |-> <<>>],
      [name |-> "bald", model |-> "curve_object", curves |-> <<>>],
      [name |-> "strand", model |-> "curve_object", curves |-> <<CurveA>>],
      [name |-> "hair", model |-> "curve_object", curves |-> <<CurveB, CurveA>>] }

\* The object instances: an instance of an object without curves is taken with
\* the identity transform only, its transform being read by nothing.
ObjectInstances ==
    { inst \in [object : ObjectCatalog, transform : Transforms] :
        inst.object.curves = <<>> => inst.transform = IdentityTransform }

Assemblies == UNION { [1..n -> ObjectInstances] : n \in 0..MaxInstances }

\* The parameter is absent, or holds one of these strings.
Absent == "<absent>"

AlgorithmParams == { Absent, "bvh", "sbvh", "octree" }

\* The values CurveTreeDefaultMaxLeafSize may have (it is set outside these files).
MaxLeafSizes == { 0, 1, 2 }

\* The SAH cost constants (set outside these files).
CurveTreeDefaultInteriorNodeTraversalCost == 1

CurveTreeDefaultCurveIntersectionCost == 1

-----------------------------------------------------------------------------
(* collect_curves *)

\* CurveObjectFactory::get_model()
CurveModel == "curve_object"

\* strcmp(object.get_model(), CurveObjectFactory::get_model()) == 0
IsCurveObject(object) == object.model = CurveModel

\* BezierCurve3d(curve, transform): the curve with its control points transformed.
TransformedCurve(curve, transform) ==
    [points |-> [k \in DOMAIN curve.points |->
                    [d \in Axes |-> curve.points[k][d] + transform[d]]],
     width |-> curve.width]

\* CurveKey(i, j, 0): indices count from 0, as in the source.
CurveKeyMaterialIsCurve(i, j) ==
    [object_instance_index |-> i, curve_index |-> j, material_index |-> j]

CurveKey(i, j) ==
    [object_instance_index |-> i, curve_index |-> j, material_index |-> 0]

PushKeyFirstOnly(keys, i, j) ==
    IF j = 0 THEN Append(keys, CurveKey(i, j)) ELSE keys

\* curve_keys->push_back(CurveKey(i, j, 0))
PushKey(keys, i, j) == Append(keys, CurveKey(i, j))

\* The object of object instance i (0-based).
ObjectOf(i) == assembly[i + 1].object

\* for (i ...): an object instance that is not a curve object is skipped.
CollectSkip ==
    /\ pc = "collect"
    /\ ci < Len(assembly)
    /\ ~IsCurveObject(ObjectOf(ci))
    /\ ci' = ci + 1
    /\ UNCHANGED <<InputVars, pc, error, cj, m_curves3,
                   m_curve_keys, collected, curve_bboxes, order,
                   partitioner_max_leaf_size, m_nodes, stack, statistics, logged, steps>>

\* for (j ...): one iteration of the inner loop pushes one curve and one key.
CollectCurve ==
    /\ pc = "collect"
    /\ ci < Len(assembly)
    /\ IsCurveObject(ObjectOf(ci))
    /\ cj < Len(ObjectOf(ci).curves)
    /\ m_curves3' = Append(m_curves3,
                        TransformedCurve(ObjectOf(ci).curves[cj + 1], assembly[ci + 1].transform))
    /\ m_curve_keys' = PushKey(m_curve_keys, ci, cj)
    /\ cj' = cj + 1
    /\ UNCHANGED <<InputVars, pc, error, ci,
                   collected, curve_bboxes, order, partitioner_max_leaf_size,
                   m_nodes, stack, statistics, logged, steps>>

\* The inner loop ends: next object instance.
CollectNextInstance ==
    /\ pc = "collect"
    /\ ci < Len(assembly)
    /\ IsCurveObject(ObjectOf(ci))
    /\ cj = Len(ObjectOf(ci).curves)
    /\ ci' = ci + 1
    /\ cj' = 0
    /\ UNCHANGED <<InputVars, pc, error, m_curves3,
                   m_curve_keys, collected, curve_bboxes, order,
                   partitioner_max_leaf_size, m_nodes, stack, statistics, logged, steps>>

\* The outer loop ends: collect_curves returns.
CollectDone ==
    /\ pc = "collect"
    /\ ci = Len(assembly)
    /\ pc' = "bboxes"
    /\ collected' = [curves |-> m_curves3, keys |-> m_curve_keys]
    /\ steps' = Append(steps, "collect")
    /\ UNCHANGED <<InputVars, error, ci, cj, m_curves3,
                   m_curve_keys, curve_bboxes, order, partitioner_max_leaf_size,
                   m_nodes, stack, statistics, logged>>

-----------------------------------------------------------------------------
(* Bounding boxes *)

\* An invalidated bounding box: inserting a box into it yields that box.
InvalidBBox == [min |-> [d \in Axes |-> 1000], max |-> [d \in Axes |-> -1000]]

IsValidBBox(b) == \A d \in Axes : b.min[d] <= b.max[d]

\* The union of two boxes: componentwise min of the min corners, max of the max corners.
BBoxUnion(a, b) ==
    [min |-> [d \in Axes |-> Min(a.min[d], b.min[d])],
     max |-> [d \in Axes |-> Max(a.max[d], b.max[d])]]

RECURSIVE PointsBBox(_, _)
PointsBBox(points, n) ==
    IF n = 0 THEN InvalidBBox
    ELSE BBoxUnion(PointsBBox(points, n - 1), [min |-> points[n], max |-> points[n]])

\* BezierCurve3d::get_bbox(): the tight box of the control points, grown by the width.
GetBBox(curve) ==
    LET b == PointsBBox(curve.points, Len(curve.points))
    IN  [min |-> [d \in Axes |-> b.min[d] - curve.width],
         max |-> [d \in Axes |-> b.max[d] + curve.width]]

Extent(b, d) == b.max[d] - b.min[d]

\* Half the surface area of a box; 0 for an invalidated box.
HalfSurfaceArea(b) ==
    IF ~IsValidBBox(b) THEN 0
    ELSE Extent(b, 1) * Extent(b, 2) + Extent(b, 2) * Extent(b, 3) + Extent(b, 3) * Extent(b, 1)

\* for (i ...) curve_bboxes[i] = m_curves3[i].get_bbox()
CurveBBoxes(curves) == [k \in 1..Len(curves) |-> GetBBox(curves[k])]

-----------------------------------------------------------------------------
(* SAH partitioner *)

\* The union of the boxes of the items ord[begin], ..., ord[end-1] (0-based positions).
RECURSIVE ComputeBBox(_, _, _, _)
ComputeBBox(bboxes, ord, begin, end) ==
    IF begin >= end THEN InvalidBBox
    ELSE BBoxUnion(ComputeBBox(bboxes, ord, begin, end - 1), bboxes[ord[end] + 1])

\* The axis of largest extent, the lowest axis index on a tie.
DominantAxis(b) ==
    CHOOSE d \in Axes :
        /\ \A e \in Axes : Extent(b, e) <= Extent(b, d)
        /\ \A e \in Axes : Extent(b, e) = Extent(b, d) => d <= e

\* Twice the centroid coordinate of item's box along axis d.
SortKey(bboxes, item, d) == bboxes[item + 1].min[d] + bboxes[item + 1].max[d]

\* item a goes before item b: lower centroid, then lower primitive index.
Before(bboxes, d, a, b) ==
    \/ SortKey(bboxes, a, d) < SortKey(bboxes, b, d)
    \/ SortKey(bboxes, a, d) = SortKey(bboxes, b, d) /\ a < b

\* The items of a set as a sequence sorted along axis d.
RECURSIVE SortItems(_, _, _)
SortItems(bboxes, items, d) ==
    IF items = {} THEN <<>>
    ELSE LET first == CHOOSE a \in items : \A b \in items \ {a} : Before(bboxes, d, a, b)
         IN  <<first>> \o SortItems(bboxes, items \ {first}, d)

\* The items of positions begin..end-1 of the ordering.
RangeItems(ord, begin, end) == { ord[p + 1] : p \in begin..(end - 1) }

RECURSIVE SeqBBox(_, _, _, _)
SeqBBox(bboxes, items, from, to) ==
    IF from > to THEN InvalidBBox
    ELSE BBoxUnion(SeqBBox(bboxes, items, from, to - 1), bboxes[items[to] + 1])

\* The cost of splitting the sorted items after the k-th, scaled by the parent's
\* half surface area: traversal_cost + sum over the children of
\* (child area / parent area) * child size * intersection_cost.
SplitCost(bboxes, sorted, k, parent) ==
    CurveTreeDefaultInteriorNodeTraversalCost * HalfSurfaceArea(parent)
    + CurveTreeDefaultCurveIntersectionCost *
        ( HalfSurfaceArea(SeqBBox(bboxes, sorted, 1, k)) * k
        + HalfSurfaceArea(SeqBBox(bboxes, sorted, k + 1, Len(sorted))) * (Len(sorted) - k) )

\* Leaf cost = intersection_cost * range size, on the same scale.
LeafCost(count, parent) ==
    CurveTreeDefaultCurveIntersectionCost * count * HalfSurfaceArea(parent)

\* The cheapest candidate split position, the lowest position on a tie.
BestSplit(bboxes, sorted, parent) ==
    CHOOSE k \in 1..(Len(sorted) - 1) :
        /\ \A l \in 1..(Len(sorted) - 1) :
              SplitCost(bboxes, sorted, k, parent) <= SplitCost(bboxes, sorted, l, parent)
        /\ \A l \in 1..(Len(sorted) - 1) :
              SplitCost(bboxes, sorted, k, parent) = SplitCost(bboxes, sorted, l, parent) => k <= l

\* Terminating as a leaf is cheaper than any candidate split.
LeafCheaper(bboxes, ord, begin, end, parent) ==
    LET sorted == SortItems(bboxes, RangeItems(ord, begin, end), DominantAxis(parent))
    IN  \A k \in 1..(Len(sorted) - 1) :
            LeafCost(end - begin, parent) < SplitCost(bboxes, sorted, k, parent)

\* The partitioner signals that the range is to become a leaf.
LeafPreferred(bboxes, ord, maxleaf, begin, end, parent) ==
    \/ end - begin <= maxleaf
    \/ LeafCheaper(bboxes, ord, begin, end, parent)

\* partition(begin, end, bbox): the pivot and the item ordering after the split;
\* the pivot is end when the range is to become a leaf.
Partition(bboxes, ord, maxleaf, begin, end, parent) ==
    IF LeafPreferred(bboxes, ord, maxleaf, begin, end, parent)
    THEN [pivot |-> end, ordering |-> ord]
    ELSE LET sorted == SortItems(bboxes, RangeItems(ord, begin, end), DominantAxis(parent))
         IN  [pivot |-> begin + BestSplit(bboxes, sorted, parent),
              ordering |-> [p \in 1..Len(ord) |->
                              IF p - 1 >= begin /\ p - 1 < end
                              THEN sorted[p - begin] ELSE ord[p]]]

\* The ordering of a new partitioner: 0, 1, ..., size-1.
IdentityOrdering(size) == [p \in 1..size |-> p - 1]

-----------------------------------------------------------------------------
(* CurveTree::CurveTree *)

AllowedAlgorithmsAndOctree == { "bvh", "sbvh", "octree" }

\* The values make_vector("bvh", "sbvh") allows.
AllowedAlgorithms == { "bvh", "sbvh" }

\* get_optional<string>("algorithm", "bvh", ...): the default when the entry is absent.
Algorithm(param) == IF param = Absent THEN "bvh" ELSE param

IsBvhOrFallback(algorithm) == algorithm \in { "bvh", "sbvh" }

\* if (algorithm == "bvh")
IsBvh(algorithm) == algorithm = "bvh"

\* A value outside the closed choice set is a configuration error.
ConstructInvalidParam ==
    /\ pc = "construct"
    /\ Algorithm(algorithm_param) \notin AllowedAlgorithms
    /\ pc' = "failed"
    /\ error' = "ConfigurationError"
    /\ UNCHANGED <<InputVars, ci, cj, m_curves3, m_curve_keys, collected, curve_bboxes,
                   order, partitioner_max_leaf_size, m_nodes, stack, statistics, logged,
                   steps>>

\* algorithm == "bvh": build_bvh() is entered.
ConstructBvh ==
    /\ pc = "construct"
    /\ Algorithm(algorithm_param) \in AllowedAlgorithms
    /\ IsBvh(Algorithm(algorithm_param))
    /\ pc' = "collect"
    /\ UNCHANGED <<InputVars, error, ci, cj, m_curves3, m_curve_keys, collected,
                   curve_bboxes, order, partitioner_max_leaf_size, m_nodes, stack,
                   statistics, logged, steps>>

\* else throw ExceptionNotImplemented()
ConstructNotImplemented ==
    /\ pc = "construct"
    /\ Algorithm(algorithm_param) \in AllowedAlgorithms
    /\ ~IsBvh(Algorithm(algorithm_param))
    /\ pc' = "failed"
    /\ error' = "ExceptionNotImplemented"
    /\ UNCHANGED <<InputVars, ci, cj, m_curves3, m_curve_keys, collected, curve_bboxes,
                   order, partitioner_max_leaf_size, m_nodes, stack, statistics, logged,
                   steps>>

-----------------------------------------------------------------------------
(* CurveTree::build_bvh *)

\* Partitioner partitioner(curve_bboxes, CurveTreeDefaultMaxLeafSize, ...)
PartitionerMaxLeafSize == max_leaf_size

BuilderMaxLeafSizePlusOne == max_leaf_size + 1

\* builder.build(*this, partitioner, m_curves3.size(), CurveTreeDefaultMaxLeafSize)
BuilderMaxLeafSize == max_leaf_size

BuildSizeOneShort(curves) == IF Len(curves) = 0 THEN 0 ELSE Len(curves) - 1

\* builder.build(*this, partitioner, m_curves3.size(), ...)
BuildSize(curves) == Len(curves)

\* The bounding boxes of the curves are retrieved and the partitioner is created.
ExtractBBoxes ==
    /\ pc = "bboxes"
    /\ curve_bboxes' = CurveBBoxes(m_curves3)
    /\ order' = IdentityOrdering(Len(m_curves3))
    /\ partitioner_max_leaf_size' = PartitionerMaxLeafSize
    /\ pc' = "build_begin"
    /\ steps' = Append(steps, "bboxes")
    /\ UNCHANGED <<InputVars, error, ci, cj, m_curves3, m_curve_keys, collected,
                   m_nodes, stack, statistics, logged>>

\* A node that has been allocated and not yet made a leaf or an interior node.
PendingNode == [kind |-> "pending"]

\* Builder::build(): the root node is created and its frame is pushed.
BuildBegin ==
    /\ pc = "build_begin"
    /\ m_nodes' = <<PendingNode>>
    /\ stack' = << [node |-> 0, begin |-> 0, end |-> BuildSize(m_curves3),
                    bbox |-> ComputeBBox(curve_bboxes, order, 0, BuildSize(m_curves3))] >>
    /\ pc' = "build"
    /\ UNCHANGED <<InputVars, error, ci, cj, m_curves3, m_curve_keys, collected,
                   curve_bboxes, order, partitioner_max_leaf_size, statistics, logged,
                   steps>>

\* The frame the builder evaluates next.
Frame == Head(stack)

\* The partitioner's answer for the current frame.
FramePartition ==
    Partition(curve_bboxes, order, partitioner_max_leaf_size, Frame.begin, Frame.end,
              Frame.bbox)

\* The current frame ends the recursion: the range is at most the maximum leaf
\* size, or the partitioner signals that a leaf is preferred.
FrameIsLeaf ==
    \/ Frame.end - Frame.begin <= BuilderMaxLeafSize
    \/ FramePartition.pivot = Frame.end

\* Evaluate range -> emit Leaf with the current range.
BuildLeaf ==
    /\ pc = "build"
    /\ stack # <<>>
    /\ FrameIsLeaf
    /\ m_nodes' = [m_nodes EXCEPT ![Frame.node + 1] =
                      [kind |-> "leaf", item_index |-> Frame.begin,
                       item_count |-> Frame.end - Frame.begin, bbox |-> Frame.bbox]]
    /\ stack' = Tail(stack)
    /\ UNCHANGED <<InputVars, pc, error, ci, cj, m_curves3, m_curve_keys, collected,
                   curve_bboxes, order, partitioner_max_leaf_size, statistics, logged,
                   steps>>

\* Evaluate range -> split into two ranges, emit Interior with two child
\* references and the combined bounding box, recurse into the left range first.
BuildSplit ==
    /\ pc = "build"
    /\ stack # <<>>
    /\ ~FrameIsLeaf
    /\ LET part == FramePartition
           left_bbox == ComputeBBox(curve_bboxes, part.ordering, Frame.begin, part.pivot)
           right_bbox == ComputeBBox(curve_bboxes, part.ordering, part.pivot, Frame.end)
           left_node == Len(m_nodes)
           right_node == Len(m_nodes) + 1
       IN  /\ order' = part.ordering
           /\ m_nodes' = [m_nodes EXCEPT ![Frame.node + 1] =
                             [kind |-> "interior", left |-> left_node, right |-> right_node,
                              bbox |-> BBoxUnion(left_bbox, right_bbox)]]
                         \o <<PendingNode, PendingNode>>
           /\ stack' = << [node |-> left_node, begin |-> Frame.begin, end |-> part.pivot,
                           bbox |-> left_bbox],
                          [node |-> right_node, begin |-> part.pivot, end |-> Frame.end,
                           bbox |-> right_bbox] >> \o Tail(stack)
    /\ UNCHANGED <<InputVars, pc, error, ci, cj, m_curves3, m_curve_keys, collected,
                   curve_bboxes, partitioner_max_leaf_size, statistics, logged, steps>>

\* The builder returns; clear_release_memory(curve_bboxes).
BuildEnd ==
    /\ pc = "build"
    /\ stack = <<>>
    /\ curve_bboxes' = <<>>
    /\ pc' = "reorder"
    /\ steps' = Append(steps, "build")
    /\ UNCHANGED <<InputVars, error, ci, cj, m_curves3, m_curve_keys, collected, order,
                   partitioner_max_leaf_size, m_nodes, stack, statistics, logged>>

\* small_item_reorder(items, temp, order, count): items[i] becomes the former
\* items[order[i]] for every i below count.
SmallItemReorder(items, ord, count) ==
    [p \in 1..Len(items) |-> IF p <= count THEN items[ord[p] + 1] ELSE items[p]]

ShouldReorderAlways(curves) == TRUE

ShouldReorderNever(curves) == FALSE

\* if (!m_curves3.empty())
ShouldReorder(curves) == curves # <<>>

ReorderedCurvesNot(curves, ord) == curves

\* small_item_reorder(&m_curves3[0], &temp_curves[0], &order[0], order.size())
ReorderedCurves(curves, ord) == SmallItemReorder(curves, ord, Len(ord))

ReorderedKeysNot(keys, ord) == keys

\* small_item_reorder(&m_curve_keys[0], &temp_keys[0], &order[0], order.size())
ReorderedKeys(keys, ord) == SmallItemReorder(keys, ord, Len(ord))

\* The curves are reordered.
ReorderCurves ==
    /\ pc = "reorder"
    /\ ShouldReorder(m_curves3)
    /\ m_curves3' = ReorderedCurves(m_curves3, order)
    /\ pc' = "reorder_keys"
    /\ UNCHANGED <<InputVars, error, ci, cj, m_curve_keys, collected, curve_bboxes, order,
                   partitioner_max_leaf_size, m_nodes, stack, statistics, logged, steps>>

\* The curve keys are reordered; build_bvh returns.
ReorderKeys ==
    /\ pc = "reorder_keys"
    /\ m_curve_keys' = ReorderedKeys(m_curve_keys, order)
    /\ pc' = "statistics"
    /\ steps' = Append(steps, "reorder")
    /\ UNCHANGED <<InputVars, error, ci, cj, m_curves3, collected, curve_bboxes, order,
                   partitioner_max_leaf_size, m_nodes, stack, statistics, logged>>

\* There are no curves: the reorder is skipped and build_bvh returns.
SkipReorder ==
    /\ pc = "reorder"
    /\ ~ShouldReorder(m_curves3)
    /\ pc' = "statistics"
    /\ UNCHANGED <<InputVars, error, ci, cj, m_curves3, m_curve_keys, collected,
                   curve_bboxes, order, partitioner_max_leaf_size, m_nodes, stack,
                   statistics, logged, steps>>

\* The statistics are inserted and logged; &m_nodes[0] is read.
PrintStatistics ==
    /\ pc = "statistics"
    /\ statistics' = <<"nodes alignment", "total time">>
    /\ logged' = TRUE
    /\ pc' = "done"
    /\ steps' = Append(steps, "statistics")
    /\ UNCHANGED <<InputVars, error, ci, cj, m_curves3, m_curve_keys, collected,
                   curve_bboxes, order, partitioner_max_leaf_size, m_nodes, stack>>

-----------------------------------------------------------------------------
(* Specification *)

Init ==
    /\ assembly \in Assemblies
    /\ algorithm_param \in AlgorithmParams
    /\ max_leaf_size \in MaxLeafSizes
    /\ pc = "construct"
    /\ error = "none"
    /\ ci = 0
    /\ cj = 0
    /\ m_curves3 = <<>>
    /\ m_curve_keys = <<>>
    /\ collected = [curves |-> <<>>, keys |-> <<>>]
    /\ curve_bboxes = <<>>
    /\ order = <<>>
    /\ partitioner_max_leaf_size = 0
    /\ m_nodes = <<>>
    /\ stack = <<>>
    /\ statistics = <<>>
    /\ logged = FALSE
    /\ steps = <<>>
    /\ FluffyIdle
    /\ SplitIdle
    /\ ShaderIdle

Next ==
    \/ ConstructInvalidParam
    \/ ConstructBvh
    \/ ConstructNotImplemented
    \/ CollectSkip
    \/ CollectCurve
    \/ CollectNextInstance
    \/ CollectDone
    \/ ExtractBBoxes
    \/ BuildBegin
    \/ BuildLeaf
    \/ BuildSplit
    \/ BuildEnd
    \/ ReorderCurves
    \/ ReorderKeys
    \/ SkipReorder
    \/ PrintStatistics

Spec == Init /\ [][Next]_vars

-----------------------------------------------------------------------------
(* Properties *)

\* The build of the tree has finished.
Built == pc \in { "reorder", "reorder_keys", "statistics", "done" }

\* build_bvh has returned.
Reordered == pc \in { "statistics", "done" }

NodeIds == 1..Len(m_nodes)

LeafIds == { n \in NodeIds : m_nodes[n].kind = "leaf" }

InteriorIds == { n \in NodeIds : m_nodes[n].kind = "interior" }

\* The 0-based positions of a leaf's range.
LeafRange(n) ==
    m_nodes[n].item_index .. (m_nodes[n].item_index + m_nodes[n].item_count - 1)

\* C1: after a build over N > 0 curves every node is a leaf or an interior node,
\* every leaf range lies in [0, N) and every index of [0, N) belongs to exactly
\* one leaf range.
C1_LeafRangesPartition ==
    (Built /\ Len(m_curves3) > 0) =>
        /\ \A n \in NodeIds : m_nodes[n].kind \in { "leaf", "interior" }
        /\ \A n \in LeafIds : LeafRange(n) \subseteq 0..(Len(m_curves3) - 1)
        /\ \A p \in 0..(Len(m_curves3) - 1) :
              Cardinality({ n \in LeafIds : p \in LeafRange(n) }) = 1

C1_Witness ==
    /\ pc = "done"
    /\ Len(m_curves3) >= 4
    /\ Cardinality(LeafIds) >= 3

\* The item ordering is a permutation of 0..N-1.
IsPermutation(ord, n) ==
    /\ Len(ord) = n
    /\ { ord[p] : p \in 1..n } = 0..(n - 1)

\* C2: once both arrays are reordered, the curve and the key of every position p
\* are the collected curve and the collected key of index order[p], and order is
\* a permutation of the collected indices.
C2_PairingPreserved ==
    (Reordered /\ collected.curves # <<>>) =>
        /\ IsPermutation(order, Len(collected.curves))
        /\ Len(m_curves3) = Len(collected.curves)
        /\ Len(m_curve_keys) = Len(collected.keys)
        /\ \A p \in 1..Len(order) :
              /\ m_curves3[p] = collected.curves[order[p] + 1]
              /\ m_curve_keys[p] = collected.keys[order[p] + 1]

C2_Witness ==
    /\ pc = "done"
    /\ Len(order) >= 3
    /\ order # IdentityOrdering(Len(order))
    /\ m_curve_keys # collected.keys

\* C3: the curve array and the key array have the same length in every state.
C3_SameLength == Len(m_curves3) = Len(m_curve_keys)

C3_Witness ==
    /\ pc = "collect"
    /\ cj = 2
    /\ Len(m_curves3) >= 3

\* C4: with the algorithm "sbvh" the constructor does nothing but throw
\* ExceptionNotImplemented: it can throw, and no curve, key, node or statistic
\* exists and no pipeline step has run, before and after.
C4_UnimplementedFails ==
    (Algorithm(algorithm_param) = "sbvh") =>
        /\ pc \in { "construct", "failed" }
        /\ pc = "construct" => ENABLED ConstructNotImplemented
        /\ pc = "failed" => error = "ExceptionNotImplemented"
        /\ m_curves3 = <<>>
        /\ m_curve_keys = <<>>
        /\ m_nodes = <<>>
        /\ statistics = <<>>
        /\ ~logged
        /\ steps = <<>>

C4_Witness ==
    /\ algorithm_param = "sbvh"
    /\ pc = "failed"
    /\ \E i \in 1..Len(assembly) : Len(assembly[i].object.curves) = 2

\* C5: when no curve was collected, the built tree is a single empty leaf, the
\* reorder does not run, no error is raised, and the node array is not empty
\* when the statistics read m_nodes[0].
C5_EmptyInput ==
    (Built /\ collected.curves = <<>>) =>
        /\ Len(m_nodes) = 1
        /\ m_nodes[1].kind = "leaf"
        /\ m_nodes[1].item_count = 0
        /\ error = "none"
        /\ pc # "reorder_keys"
        /\ m_curves3 = <<>>
        /\ m_curve_keys = <<>>
        /\ "reorder" \notin { steps[k] : k \in 1..Len(steps) }

C5_Witness ==
    /\ pc = "done"
    /\ collected.curves = <<>>
    /\ Len(assembly) >= 2
    /\ \E i \in 1..Len(assembly) : IsCurveObject(assembly[i].object)

RECURSIVE CurvesBBox(_, _, _)
CurvesBBox(curves, from, to) ==
    IF from >= to THEN InvalidBBox
    ELSE BBoxUnion(CurvesBBox(curves, from, to - 1), GetBBox(curves[to]))

\* C7: once the arrays are reordered, the box of every interior node is the
\* union of the boxes of its two children, and the box of every leaf is the
\* union of the boxes of the curves of its range.
C7_BoundingBoxes ==
    Reordered =>
        /\ \A n \in InteriorIds :
              m_nodes[n].bbox = BBoxUnion(m_nodes[m_nodes[n].left + 1].bbox,
                                          m_nodes[m_nodes[n].right + 1].bbox)
        /\ \A n \in LeafIds :
              m_nodes[n].bbox = CurvesBBox(m_curves3, m_nodes[n].item_index,
                                           m_nodes[n].item_index + m_nodes[n].item_count)

C7_Witness ==
    /\ pc = "done"
    /\ Cardinality(InteriorIds) >= 2
    /\ order # IdentityOrdering(Len(order))
    /\ \E n \in InteriorIds : m_nodes[m_nodes[n].left + 1].kind = "interior"

\* The keys collect_curves is to have emitted when its loops stand at (i, j):
\* one key (i', j', 0) for every curve j' of every curve object instance i' before.
RECURSIVE ExpectedKeys(_, _)
ExpectedKeys(i, j) ==
    IF j > 0
    THEN Append(ExpectedKeys(i, j - 1),
                [object_instance_index |-> i, curve_index |-> j - 1, material_index |-> 0])
    ELSE IF i = 0 THEN <<>>
    ELSE IF assembly[i].object.model = "curve_object"
         THEN ExpectedKeys(i - 1, Len(assembly[i].object.curves))
         ELSE ExpectedKeys(i - 1, 0)

\* The curve a key stands for, in the space of the assembly.
CurveOfKey(key) ==
    TransformedCurve(assembly[key.object_instance_index + 1].object.curves[key.curve_index + 1],
                     assembly[key.object_instance_index + 1].transform)

\* C9: while collect_curves runs, the keys are those of the curves of the curve
\* object instances passed so far, in the order of i then j, each with material 0,
\* and the curve at every position is the transformed curve of the key at that
\* position; collect_curves returns them for the whole assembly.
C9_CollectCurves ==
    /\ pc = "collect" =>
          /\ m_curve_keys = ExpectedKeys(ci, cj)
          /\ Len(m_curves3) = Len(m_curve_keys)
          /\ \A k \in 1..Len(m_curve_keys) : m_curves3[k] = CurveOfKey(m_curve_keys[k])
    /\ pc \in { "bboxes", "build_begin", "build", "reorder", "reorder_keys", "statistics", "done" } =>
          /\ collected.keys = ExpectedKeys(Len(assembly), 0)
          /\ Len(collected.curves) = Len(collected.keys)
          /\ \A k \in 1..Len(collected.keys) : collected.curves[k] = CurveOfKey(collected.keys[k])
          /\ (\A i \in 1..Len(assembly) : ~IsCurveObject(assembly[i].object)) =>
                collected = [curves |-> <<>>, keys |-> <<>>]

C9_Witness ==
    /\ pc = "bboxes"
    /\ Len(assembly) = 3
    /\ ~IsCurveObject(assembly[2].object)
    /\ Len(assembly[1].object.curves) = 2
    /\ Len(assembly[3].object.curves) = 2
    /\ assembly[3].transform # IdentityTransform

\* C10: over exactly one curve the built tree is a single leaf of range [0, 1)
\* whose box is the box of that curve, no error is raised, and the reorder
\* leaves the two arrays as they were collected.
C10_SingleCurve ==
    (Built /\ Len(collected.curves) = 1) =>
        /\ m_nodes = << [kind |-> "leaf", item_index |-> 0, item_count |-> 1,
                         bbox |-> GetBBox(collected.curves[1])] >>
        /\ error = "none"
        /\ m_curves3 = collected.curves
        /\ m_curve_keys = collected.keys

C10_Witness ==
    /\ pc = "done"
    /\ Len(collected.curves) = 1
    /\ Len(assembly) = 3
    /\ "reorder" \in { steps[k] : k \in 1..Len(steps) }

FrameStep ==
    (pc = "build" /\ stack # <<>> /\ pc' = "build") =>
        LET size == Frame.end - Frame.begin
        IN  \/ /\ \/ size <= max_leaf_size
                  \/ LeafPreferred(curve_bboxes, order, max_leaf_size, Frame.begin,
                                   Frame.end, Frame.bbox)
               /\ stack' = Tail(stack)
               /\ Len(m_nodes') = Len(m_nodes)
               /\ m_nodes'[Frame.node + 1].kind = "leaf"
            \/ /\ size > max_leaf_size
               /\ Len(stack') = Len(stack) + 1
               /\ Len(m_nodes') = Len(m_nodes) + 2
               /\ m_nodes'[Frame.node + 1].kind = "interior"
               /\ stack'[1].begin = Frame.begin
               /\ stack'[1].end = stack'[2].begin
               /\ stack'[2].end = Frame.end
               /\ stack'[1].begin < stack'[1].end
               /\ stack'[2].begin < stack'[2].end

\* The steps collect_curves has left from object instance i (1-based) on.
RECURSIVE CollectWork(_)
CollectWork(i) ==
    IF i > Len(assembly) THEN 0
    ELSE (IF IsCurveObject(assembly[i].object) THEN Len(assembly[i].object.curves) + 1 ELSE 1)
         + CollectWork(i + 1)

\* The nodes the frames from the k-th on can still give rise to.
RECURSIVE BuildWork(_)
BuildWork(k) ==
    IF k > Len(stack) THEN 0
    ELSE (IF stack[k].end > stack[k].begin THEN 2 * (stack[k].end - stack[k].begin) - 1 ELSE 1)
         + BuildWork(k + 1)

\* The rank of a position of the constructor: later positions rank lower.
PositionRank ==
    CASE pc = "construct" -> 9
      [] pc = "collect" -> 8
      [] pc = "bboxes" -> 7
      [] pc = "build_begin" -> 6
      [] pc = "build" -> 5
      [] pc = "reorder" -> 4
      [] pc = "reorder_keys" -> 3
      [] pc = "statistics" -> 2
      [] pc = "done" -> 1
      [] pc = "failed" -> 0

\* A variant of the construction: the position, then the work left in it.
Variant ==
    PositionRank * 100
    + (IF pc = "collect" THEN CollectWork(ci + 1) - cj ELSE 0)
    + (IF pc = "build" THEN BuildWork(1) ELSE 0)

\* The constructor can take a step: an action is enabled, or the builder has a
\* frame whose range is a leaf or has a pivot strictly inside it.
CanStep ==
    \/ ENABLED ( \/ ConstructInvalidParam \/ ConstructBvh \/ ConstructNotImplemented
                 \/ CollectSkip \/ CollectCurve \/ CollectNextInstance \/ CollectDone
                 \/ ExtractBBoxes \/ BuildBegin \/ BuildEnd \/ ReorderCurves
                 \/ ReorderKeys \/ SkipReorder \/ PrintStatistics )
    \/ /\ pc = "build"
       /\ stack # <<>>
       /\ \/ FrameIsLeaf
          \/ Frame.begin < FramePartition.pivot /\ FramePartition.pivot < Frame.end

\* C12: the construction terminates: until it is done or has failed it can
\* take a step, and every step lowers a variant that is never negative (the
\* position in the constructor, then the curves left to collect or the nodes the
\* pending frames can still give rise to); every step of the builder emits a
\* leaf or splits its range into two non-empty, strictly smaller ranges; and the
\* tree never has more than 2N - 1 nodes (one node for no curve).
C12_BuildTerminates ==
    /\ [](pc \in { "done", "failed" } \/ CanStep)
    /\ [](Variant >= 0)
    /\ [][Variant' < Variant]_vars
    /\ [][FrameStep]_vars
    /\ [](Len(m_nodes) <= Max(1, 2 * Len(m_curves3) - 1))

C12_Witness ==
    /\ pc = "done"
    /\ Len(m_nodes) = 7
    /\ \E n \in LeafIds : m_nodes[n].item_count = 2

\* The steps of a successful construction, for a number of collected curves.
PipelineSteps(count) ==
    IF count = 0
    THEN <<"collect", "bboxes", "build", "statistics">>
    ELSE <<"collect", "bboxes", "build", "reorder", "statistics">>

\* The number of pipeline steps finished at a position of the constructor.
StepsFinished(position, count) ==
    CASE position \in { "construct", "collect", "failed" } -> 0
      [] position = "bboxes" -> 1
      [] position \in { "build_begin", "build" } -> 2
      [] position \in { "reorder", "reorder_keys" } -> 3
      [] position = "statistics" -> Len(PipelineSteps(count)) - 1
      [] position = "done" -> Len(PipelineSteps(count))

\* C13: the steps performed are, at every position of the constructor, the
\* steps before that position in the order collect, bounding boxes, build,
\* reorder, statistics (the reorder being left out when there is no curve);
\* nothing is recorded or logged before the constructor's end, when build_bvh
\* has returned and both statistics are recorded and logged; and the reordered
\* arrays are the collected ones taken in the order the partitioner holds with
\* the build complete.
C13_PipelineOrder ==
    /\ steps = SubSeq(PipelineSteps(Len(m_curves3)), 1, StepsFinished(pc, Len(m_curves3)))
    /\ pc # "done" => (statistics = <<>> /\ ~logged)
    /\ pc = "done" => (statistics = <<"nodes alignment", "total time">> /\ logged)
    /\ Built => (stack = <<>> /\ IsPermutation(order, Len(collected.curves)))
    /\ Reordered =>
          /\ m_curves3 = [p \in 1..Len(order) |-> collected.curves[order[p] + 1]]
          /\ m_curve_keys = [p \in 1..Len(order) |-> collected.keys[order[p] + 1]]

C13_Witness ==
    /\ pc = "done"
    /\ steps = <<"collect", "bboxes", "build", "reorder", "statistics">>
    /\ order # IdentityOrdering(Len(order))
    /\ Len(order) = 5

-----------------------------------------------------------------------------
(* make_fluffy (tools/makefluffy/main.cpp)                                  *)

\* The largest number of objects and of object instances of the assembly
\* make_fluffy is given.
MaxObjects == 3

MaxSupportInstances == 2

\* Names are sequences of characters, so that the search for "light" is a
\* search for a substring.
Light == <<"l", "i", "g", "h", "t">>

CurvesSuffix == <<"_", "c", "u", "r", "v", "e", "s">>

InstSuffix == <<"_", "i", "n", "s", "t">>

NameFur == <<"f", "u", "r">>

NameLigh == <<"l", "i", "g", "h">>

NameAlights == <<"a", "l", "i", "g", "h", "t", "s">>

NameLightbulb == <<"l", "i", "g", "h", "t", "b", "u", "l", "b">>

NameHair == <<"h", "a", "i", "r">>

\* The name of an object that is not in the assembly.
NameGone == <<"g", "o", "n", "e">>

\* The objects an assembly is made of: name and model.
FluffyCatalog ==
    { [name |-> NameFur, model |-> MeshModel],
      [name |-> NameLigh, model |-> MeshModel],
      [name |-> NameAlights, model |-> MeshModel],
      [name |-> NameLightbulb, model |-> MeshModel],
      [name |-> NameHair, model |-> CurveModel] }

InstanceNames == <<<<"i", "1">>, <<"i", "2">>, <<"i", "3">>, <<"i", "4">>>>

ObjectNames == { c.name : c \in FluffyCatalog } \cup { NameGone }

\* The object containers: objects of distinct names, each with a unique id.
InitialObjects ==
    { [k \in DOMAIN q |-> [name |-> q[k].name, model |-> q[k].model, uid |-> k]] :
        q \in { r \in UNION { [1..n -> FluffyCatalog] : n \in 0..MaxObjects } :
                    \A a, b \in DOMAIN r : a # b => r[a] # r[b] } }

\* The object instance containers over a container of objects: each instance
\* names the object it instantiates, which may be missing from the assembly,
\* and has a transform of its own.
InitialInstances(objects) ==
    { [k \in DOMAIN r |-> [name |-> InstanceNames[k],
                           object_name |-> r[k],
                           transform |-> <<"transform", InstanceNames[k]>>,
                           uid |-> Len(objects) + k]] :
        r \in UNION { [1..n -> ObjectNames] : n \in 0..MaxSupportInstances } }

\* The null pointer find_object returns.
NoObject == [name |-> <<>>, model |-> "<null>", uid |-> 0]

\* ObjectInstance::find_object: the object of the assembly that has the name
\* the instance refers to, or null.
FindObject(objects, object_instance) ==
    IF \E k \in 1..Len(objects) : objects[k].name = object_instance.object_name
    THEN objects[CHOOSE k \in 1..Len(objects) :
                     objects[k].name = object_instance.object_name]
    ELSE NoObject

\* std::map::operator[]: the value at a key, value-initialized if the key is
\* new, and the map that operator[] leaves behind.
MapAt(map, key) == IF key \in DOMAIN map THEN map[key] ELSE <<>>

MapTouch(map, key) == [u \in DOMAIN map \cup { key } |-> MapAt(map, u)]

MapPushBack(map, key, value) ==
    [u \in DOMAIN map \cup { key } |->
        IF u = key THEN Append(MapAt(map, key), value) ELSE map[u]]

\* insert of the entity containers: the entity goes to the end, and the
\* entities already there keep their indices.
ContainerInsert(container, entity) == Append(container, entity)

\* get_by_uid of the object instance container.
GetByUid(instances, uid) ==
    instances[CHOOSE k \in 1..Len(instances) : instances[k].uid = uid]

\* strcmp(object.get_model(), MeshObjectFactory::get_model()) is zero.
IsMeshObject(object) == object.model = MeshModel

\* string::find: the pattern occurs somewhere in the name.
Find(name, pattern) ==
    \E at \in 0..(Len(name) - Len(pattern)) :
        SubSeq(name, at + 1, at + Len(pattern)) = pattern

NameStartsWithLight(object) ==
    Len(Light) <= Len(object.name) /\ SubSeq(object.name, 1, Len(Light)) = Light

NameContainsLight(object) == Find(object.name, Light)

\* create_curve_object, as far as make_fluffy sees it: a new curve object
\* named after the support object.
CreateCurveObject(support_object, uid) ==
    [name |-> support_object.name \o CurvesSuffix, model |-> CurveModel, uid |-> uid]

\* ObjectInstanceFactory::create with the arguments of lines 274-280.
CreateCurveObjectInstance(curve_object, support_instance, uid) ==
    [name |-> curve_object.name \o InstSuffix,
     object_name |-> curve_object.name,
     transform |-> support_instance.transform,
     uid |-> uid]

FluffyObject == f_objects[f_i + 1]

SupportInstances == MapAt(f_links, FluffyObject.uid)

\* One iteration of the first loop: link an object instance to its object.
FluffyLink ==
    /\ f_pc = "link"
    /\ f_k < Len(f_instances)
    /\ LET object_instance == f_instances[f_k + 1]
           object == FindObject(f_objects, object_instance)
       IN  f_links' = IF object # NoObject
                      THEN MapPushBack(f_links, object.uid, object_instance.uid)
                      ELSE f_links
    /\ f_k' = f_k + 1
    /\ UNCHANGED <<f_objects, f_instances, f_pc, f_i, f_j, f_curve_object, f_initial, f_uid>>
    /\ UNCHANGED <<TreeVars, SplitVars, ShaderVars>>

FluffyLinkDone ==
    /\ f_pc = "link"
    /\ f_k = Len(f_instances)
    /\ f_pc' = "loop"
    /\ f_i' = 0
    /\ UNCHANGED <<f_objects, f_instances, f_links, f_k, f_j, f_curve_object, f_initial, f_uid>>
    /\ UNCHANGED <<TreeVars, SplitVars, ShaderVars>>

\* An object that is not a mesh object is passed over.
FluffySkipModel ==
    /\ f_pc = "loop"
    /\ f_i < Len(f_objects)
    /\ ~IsMeshObject(FluffyObject)
    /\ f_i' = f_i + 1
    /\ UNCHANGED <<f_objects, f_instances, f_links, f_pc, f_k, f_j, f_curve_object, f_initial, f_uid>>
    /\ UNCHANGED <<TreeVars, SplitVars, ShaderVars>>

\* A mesh object whose name contains "light" is passed over.
FluffySkipLight ==
    /\ f_pc = "loop"
    /\ f_i < Len(f_objects)
    /\ IsMeshObject(FluffyObject)
    /\ NameContainsLight(FluffyObject)
    /\ f_i' = f_i + 1
    /\ UNCHANGED <<f_objects, f_instances, f_links, f_pc, f_k, f_j, f_curve_object, f_initial, f_uid>>
    /\ UNCHANGED <<TreeVars, SplitVars, ShaderVars>>

\* The curve object of a mesh object is created and its support instances are
\* looked up.
FluffyCreate ==
    /\ f_pc = "loop"
    /\ f_i < Len(f_objects)
    /\ IsMeshObject(FluffyObject)
    /\ ~NameContainsLight(FluffyObject)
    /\ f_curve_object' = CreateCurveObject(FluffyObject, f_uid)
    /\ f_uid' = f_uid + 1
    /\ f_links' = MapTouch(f_links, FluffyObject.uid)
    /\ f_j' = 0
    /\ f_pc' = "instances"
    /\ UNCHANGED <<f_objects, f_instances, f_k, f_i, f_initial>>
    /\ UNCHANGED <<TreeVars, SplitVars, ShaderVars>>

\* One iteration of the inner loop: an instance of the curve object for one
\* support instance.
FluffyInsertInstance ==
    /\ f_pc = "instances"
    /\ f_j < Len(SupportInstances)
    /\ LET support_instance == GetByUid(f_instances, SupportInstances[f_j + 1])
       IN  f_instances' = ContainerInsert(f_instances,
               CreateCurveObjectInstance(f_curve_object, support_instance, f_uid))
    /\ f_uid' = f_uid + 1
    /\ f_j' = f_j + 1
    /\ UNCHANGED <<f_objects, f_links, f_pc, f_k, f_i, f_curve_object, f_initial>>
    /\ UNCHANGED <<TreeVars, SplitVars, ShaderVars>>

\* The curve object is inserted and the outer loop moves on.
FluffyInsertObject ==
    /\ f_pc = "instances"
    /\ f_j = Len(SupportInstances)
    /\ f_objects' = ContainerInsert(f_objects, f_curve_object)
    /\ f_i' = f_i + 1
    /\ f_pc' = "loop"
    /\ UNCHANGED <<f_instances, f_links, f_k, f_j, f_curve_object, f_initial, f_uid>>
    /\ UNCHANGED <<TreeVars, SplitVars, ShaderVars>>

FluffyDone ==
    /\ f_pc = "loop"
    /\ f_i = Len(f_objects)
    /\ f_pc' = "done"
    /\ UNCHANGED <<f_objects, f_instances, f_links, f_k, f_i, f_j, f_curve_object, f_initial, f_uid>>
    /\ UNCHANGED <<TreeVars, SplitVars, ShaderVars>>

FluffyInit ==
    /\ f_objects \in InitialObjects
    /\ f_instances \in InitialInstances(f_objects)
    /\ f_initial = [objects |-> f_objects, instances |-> f_instances]
    /\ f_links = <<>>
    /\ f_pc = "link"
    /\ f_k = 0
    /\ f_i = 0
    /\ f_j = 0
    /\ f_curve_object = <<>>
    /\ f_uid = Len(f_objects) + Len(f_instances) + 1
    /\ TreeIdle
    /\ SplitIdle
    /\ ShaderIdle

FluffyNext ==
    \/ FluffyLink
    \/ FluffyLinkDone
    \/ FluffySkipModel
    \/ FluffySkipLight
    \/ FluffyCreate
    \/ FluffyInsertInstance
    \/ FluffyInsertObject
    \/ FluffyDone

FluffySpec == FluffyInit /\ [][FluffyNext]_vars

-----------------------------------------------------------------------------
(* make_fluffy: what it leaves in the assembly                              *)

\* The name has the letters l, i, g, h, t in a row.
HasLightInName(object) ==
    \E at \in 1..Len(object.name) :
        \A k \in 1..Len(Light) :
            at + k - 1 <= Len(object.name) /\ object.name[at + k - 1] = Light[k]

\* The objects make_fluffy is to grow curves on.
Fluffable(object) == object.model = MeshModel /\ ~HasLightInName(object)

AddedObjects == SubSeq(f_objects, Len(f_initial.objects) + 1, Len(f_objects))

AddedInstances == SubSeq(f_instances, Len(f_initial.instances) + 1, Len(f_instances))

\* The instances of a container that refer to a name, in order.
InstancesOf(instances, name) ==
    LET Refers(object_instance) == object_instance.object_name = name
    IN  SelectSeq(instances, Refers)

ObjectsNamed(objects, name) ==
    LET Named(object) == object.name = name
    IN  SelectSeq(objects, Named)

\* The work make_fluffy has left: the fluffable objects from position f_i on
\* weigh most, then the objects still to visit, then the support instances
\* still to serve.
FluffableLeft ==
    Cardinality({ k \in (f_i + 1)..Len(f_objects) : Fluffable(f_objects[k]) })

FluffyVariant ==
    CASE f_pc = "link" -> 1000000 + Len(f_instances) - f_k
      [] f_pc = "loop" -> FluffableLeft * 10000 + (Len(f_objects) - f_i) * 100 + 50
      [] f_pc = "instances" ->
            FluffableLeft * 10000 + (Len(f_objects) - f_i) * 100
                + 1 + Len(SupportInstances) - f_j
      [] OTHER -> 0

-----------------------------------------------------------------------------
(* split_and_store (tools/makefluffy/main.cpp)                              *)

\* The largest split_count the call is given.
MaxSplitCount == 3

\* A curve is a stretch of one of the curves create_curve_object grows,
\* between two parameter values; a whole curve spans 0..ParameterRange, so
\* that every half taken up to the largest split count has whole ends.
ParameterRange == 2 ^ (MaxSplitCount + 1)

CurveIds == { "first", "second" }

WholeCurve(id) == [id |-> id, from |-> 0, to |-> ParameterRange]

\* A default-constructed BezierCurve3d.
NoCurve == [id |-> "<none>", from |-> 0, to |-> 0]

\* BezierCurve3d::split: child1 is the first half of the curve and child2 the
\* second half.
SplitChild1(curve) ==
    [id |-> curve.id, from |-> curve.from, to |-> (curve.from + curve.to) \div 2]

SplitChild2(curve) ==
    [id |-> curve.id, from |-> (curve.from + curve.to) \div 2, to |-> curve.to]

\* CurveObject::push_curve.
PushCurve(object, curve) == Append(object, curve)

\* The test of line 169.
ShouldSplitAboveOne(split_count) == split_count > 1

ShouldSplit(split_count) == split_count > 0

\* An activation of split_and_store: its arguments, its locals and the place
\* it has reached.
Activation(curve, split_count) ==
    [curve |-> curve, split_count |-> split_count, at |-> "entry",
     child1 |-> NoCurve, child2 |-> NoCurve]

Top == s_stack[Len(s_stack)]

Callers == SubSeq(s_stack, 1, Len(s_stack) - 1)

Depth(activations) == IF activations = <<>> THEN 0 ELSE Len(activations) - 1

\* Lines 169-173: the curve is split and the first recursive call is made.
SplitFirst ==
    /\ s_pc = "call"
    /\ s_stack # <<>>
    /\ Top.at = "entry"
    /\ ShouldSplit(Top.split_count)
    /\ s_stack' = Callers \o
            << [Top EXCEPT !.at = "first",
                           !.child1 = SplitChild1(Top.curve),
                           !.child2 = SplitChild2(Top.curve)],
               Activation(SplitChild1(Top.curve), Top.split_count - 1) >>
    /\ s_max_depth' = Max(s_max_depth, Depth(s_stack'))
    /\ UNCHANGED <<s_curve, s_split_count, s_object, s_before, s_pc>>
    /\ UNCHANGED <<TreeVars, FluffyVars, ShaderVars>>

\* Line 174: the first call has returned and the second is made.
SplitSecond ==
    /\ s_pc = "call"
    /\ s_stack # <<>>
    /\ Top.at = "first"
    /\ s_stack' = Callers \o
            << [Top EXCEPT !.at = "second"],
               Activation(Top.child2, Top.split_count - 1) >>
    /\ s_max_depth' = Max(s_max_depth, Depth(s_stack'))
    /\ UNCHANGED <<s_curve, s_split_count, s_object, s_before, s_pc>>
    /\ UNCHANGED <<TreeVars, FluffyVars, ShaderVars>>

\* Line 175: the second call has returned and so does this activation.
SplitReturn ==
    /\ s_pc = "call"
    /\ s_stack # <<>>
    /\ Top.at = "second"
    /\ s_stack' = Callers
    /\ UNCHANGED <<s_curve, s_split_count, s_object, s_before, s_pc, s_max_depth>>
    /\ UNCHANGED <<TreeVars, FluffyVars, ShaderVars>>

\* Line 176: the curve is pushed to the object and the activation returns.
SplitStore ==
    /\ s_pc = "call"
    /\ s_stack # <<>>
    /\ Top.at = "entry"
    /\ ~ShouldSplit(Top.split_count)
    /\ s_object' = PushCurve(s_object, Top.curve)
    /\ s_stack' = Callers
    /\ UNCHANGED <<s_curve, s_split_count, s_before, s_pc, s_max_depth>>
    /\ UNCHANGED <<TreeVars, FluffyVars, ShaderVars>>

\* The outermost call has returned to create_curve_object.
SplitDone ==
    /\ s_pc = "call"
    /\ s_stack = <<>>
    /\ s_pc' = "done"
    /\ UNCHANGED <<s_curve, s_split_count, s_stack, s_object, s_before, s_max_depth>>
    /\ UNCHANGED <<TreeVars, FluffyVars, ShaderVars>>

\* The call of line 227, in the first round of the loop of create_curve_object
\* or in a later one, when the object holds the curves of the earlier rounds.
SplitInit ==
    /\ s_curve \in { WholeCurve(id) : id \in CurveIds }
    /\ s_split_count \in 0..MaxSplitCount
    /\ s_before \in { <<>> } \cup { <<WholeCurve(id)>> : id \in CurveIds }
    /\ s_object = s_before
    /\ s_stack = << Activation(s_curve, s_split_count) >>
    /\ s_pc = "call"
    /\ s_max_depth = 0
    /\ TreeIdle
    /\ FluffyIdle
    /\ ShaderIdle

SplitNext ==
    \/ SplitFirst
    \/ SplitSecond
    \/ SplitReturn
    \/ SplitStore
    \/ SplitDone

SplitSpec == SplitInit /\ [][SplitNext]_vars

-----------------------------------------------------------------------------
(* split_and_store: what it pushes                                          *)

Pushed == SubSeq(s_object, Len(s_before) + 1, Len(s_object))

\* The steps an activation entered with a split count takes until it returns,
\* and the steps the activations of a stack still have to take.
RECURSIVE CallSteps(_)
CallSteps(split_count) ==
    IF split_count = 0 THEN 1 ELSE 2 * CallSteps(split_count - 1) + 3

RECURSIVE StackSteps(_)
StackSteps(activations) ==
    IF activations = <<>> THEN 0
    ELSE LET a == Head(activations)
         IN  (CASE a.at = "entry" -> CallSteps(a.split_count)
                [] a.at = "first" -> CallSteps(a.split_count - 1) + 2
                [] OTHER -> 1)
             + StackSteps(Tail(activations))

SplitVariant == StackSteps(s_stack) + (IF s_pc = "call" THEN 1 ELSE 0)

\* C15: split_and_store terminates: there is a step to take until the
\* outermost call has returned and every step lowers a natural number.  When
\* it has returned the object holds what it held before followed by exactly
\* 2^split_count curves: the input curve itself when split_count is 0, and
\* otherwise the 2^split_count equal parts of the input curve in the order of
\* the curve, so that the parts of the first half come before the parts of the
\* second half.  The activations nested inside the outermost one were at most
\* split_count deep at any time, and exactly split_count deep at some time.
C15_SplitAndStore ==
    /\ [](s_pc # "done" => ENABLED SplitNext)
    /\ [](SplitVariant >= 0)
    /\ [][SplitVariant' < SplitVariant]_vars
    /\ [](Depth(s_stack) <= s_split_count /\ s_max_depth <= s_split_count)
    /\ [](s_pc = "done" =>
            LET parts == 2 ^ s_split_count
                width == (s_curve.to - s_curve.from) \div parts
            IN  /\ SubSeq(s_object, 1, Len(s_before)) = s_before
                /\ Len(Pushed) = parts
                /\ s_split_count = 0 => Pushed = <<s_curve>>
                /\ \A k \in 1..parts :
                      Pushed[k] = [id |-> s_curve.id,
                                   from |-> s_curve.from + (k - 1) * width,
                                   to |-> s_curve.from + k * width]
                /\ s_split_count > 0 =>
                      \A k \in 1..parts :
                          (k <= parts \div 2) <=> (Pushed[k].to <= SplitChild1(s_curve).to)
                /\ s_max_depth = s_split_count)

\* A call with split count 3 has returned: the object, which held a curve
\* before, has got eight more.
C15_Witness ==
    /\ s_pc = "done"
    /\ s_split_count = 3
    /\ Len(s_before) = 1
    /\ Len(Pushed) = 8
    /\ s_max_depth = 3

-----------------------------------------------------------------------------
(* as_maya_tripleShadingSwitch (the OSL shader)                             *)

\* The largest length of the two array parameters.
MaxArrayLength == 3

\* color(0) and two other colours.
ColorZero == "black"

Colors == { ColorZero, "red", "green" }

ShapeNames == { "", "pCube", "pSphere" }

\* The object:object_name attribute when it cannot be retrieved.
NoName == "<none>"

\* An OSL array has at least one element; the two arrays are separate
\* parameters and need not have the same length.
ArraysOf(elements) == UNION { [1..n -> elements] : n \in 1..MaxArrayLength }

\* arraylength(in_inShape), the bound of the loop.
LoopEndOneShort == Len(in_inShape) - 1

LoopEnd == Len(in_inShape)

\* in_inShape[i] == shape and in_inTriple[i], with the indices of the shader
\* counting from 0.
ShapeMatches(i) == in_inShape[i + 1] = shape

InRange(i) == i < Len(in_inTriple)

\* Lines 64-65.
ShaderBegin ==
    /\ sh_pc = "begin"
    /\ shape' = ""
    /\ out_output' = in_default
    /\ sh_pc' = "getattribute"
    /\ UNCHANGED <<in_inTriple, in_inShape, in_default, object_name, sh_i, sh_reads>>
    /\ UNCHANGED <<TreeVars, FluffyVars, SplitVars>>

\* Line 67: getattribute succeeds and stores the name in shape.
ShaderGetAttribute ==
    /\ sh_pc = "getattribute"
    /\ object_name # NoName
    /\ shape' = object_name
    /\ sh_i' = 0
    /\ sh_pc' = "loop"
    /\ UNCHANGED <<in_inTriple, in_inShape, in_default, object_name, out_output, sh_reads>>
    /\ UNCHANGED <<TreeVars, FluffyVars, SplitVars>>

\* Line 67: getattribute fails and the loop is not entered.
ShaderNoAttribute ==
    /\ sh_pc = "getattribute"
    /\ object_name = NoName
    /\ sh_pc' = "done"
    /\ UNCHANGED <<in_inTriple, in_inShape, in_default, object_name, shape, out_output,
                   sh_i, sh_reads>>
    /\ UNCHANGED <<TreeVars, FluffyVars, SplitVars>>

\* Lines 69-74: the shape matches and in_inTriple has an element at i.
ShaderAssign ==
    /\ sh_pc = "loop"
    /\ sh_i < LoopEnd
    /\ ShapeMatches(sh_i)
    /\ InRange(sh_i)
    /\ out_output' = in_inTriple[sh_i + 1]
    /\ sh_reads' = sh_reads \cup { sh_i }
    /\ sh_i' = sh_i + 1
    /\ UNCHANGED <<in_inTriple, in_inShape, in_default, object_name, shape, sh_pc>>
    /\ UNCHANGED <<TreeVars, FluffyVars, SplitVars>>

\* Lines 69-74: the shape matches and in_inTriple has no element at i; the
\* read is out of range and may yield any colour.
ShaderAssignOutOfRange ==
    /\ sh_pc = "loop"
    /\ sh_i < LoopEnd
    /\ ShapeMatches(sh_i)
    /\ ~InRange(sh_i)
    /\ \E c \in Colors : out_output' = c
    /\ sh_reads' = sh_reads \cup { sh_i }
    /\ sh_i' = sh_i + 1
    /\ UNCHANGED <<in_inTriple, in_inShape, in_default, object_name, shape, sh_pc>>
    /\ UNCHANGED <<TreeVars, FluffyVars, SplitVars>>

\* Lines 69-71: the shape does not match.
ShaderPass ==
    /\ sh_pc = "loop"
    /\ sh_i < LoopEnd
    /\ ~ShapeMatches(sh_i)
    /\ sh_i' = sh_i + 1
    /\ UNCHANGED <<in_inTriple, in_inShape, in_default, object_name, shape, out_output,
                   sh_pc, sh_reads>>
    /\ UNCHANGED <<TreeVars, FluffyVars, SplitVars>>

\* Line 69: the loop ends.
ShaderEnd ==
    /\ sh_pc = "loop"
    /\ sh_i >= LoopEnd
    /\ sh_pc' = "done"
    /\ UNCHANGED <<in_inTriple, in_inShape, in_default, object_name, shape, out_output,
                   sh_i, sh_reads>>
    /\ UNCHANGED <<TreeVars, FluffyVars, SplitVars>>

ShaderInit ==
    /\ in_inTriple \in ArraysOf({ "red", "green" })
    /\ in_inShape \in ArraysOf(ShapeNames)
    /\ in_default \in { ColorZero, "red" }
    /\ object_name \in ShapeNames \cup { NoName, "pCone" }
    /\ shape = ""
    /\ out_output = ColorZero
    /\ sh_i = 0
    /\ sh_pc = "begin"
    /\ sh_reads = {}
    /\ TreeIdle
    /\ FluffyIdle
    /\ SplitIdle

ShaderNext ==
    \/ ShaderBegin
    \/ ShaderGetAttribute
    \/ ShaderNoAttribute
    \/ ShaderAssign
    \/ ShaderAssignOutOfRange
    \/ ShaderPass
    \/ ShaderEnd

ShaderSpec == ShaderInit /\ [][ShaderNext]_vars

-----------------------------------------------------------------------------
(* as_maya_tripleShadingSwitch: what it outputs                             *)

\* The indices, counted from 0, of the entries of in_inShape that are the
\* object name.
Matches ==
    IF object_name = NoName THEN {}
    ELSE { i \in 0..(Len(in_inShape) - 1) : in_inShape[i + 1] = object_name }

LastMatch == CHOOSE i \in Matches : \A k \in Matches : k <= i

\* C16: when the shader has run, its output is in_default if the object name
\* cannot be retrieved or is no entry of in_inShape; otherwise it is the
\* element of in_inTriple at the largest index whose entry of in_inShape is the
\* object name, where in_inTriple has an element at that index.  in_inTriple is
\* read exactly at the indices of the matching entries, all of them below the
\* length of in_inShape.
C16_LastMatchWins ==
    /\ \A i \in sh_reads : i >= 0 /\ i < Len(in_inShape)
    /\ sh_pc = "done" =>
          /\ Matches = {} => out_output = in_default
          /\ (Matches # {} /\ LastMatch < Len(in_inTriple)) =>
                out_output = in_inTriple[LastMatch + 1]
          /\ sh_reads = Matches

\* The shader has run on an object whose name is the first and the third
\* entry of in_inShape, with different colours at the two indices: the output
\* is the third colour.
C16_Witness ==
    /\ sh_pc = "done"
    /\ Matches = { 0, 2 }
    /\ Len(in_inTriple) = 3
    /\ in_inTriple[1] # in_inTriple[3]
    /\ in_default # in_inTriple[3]
    /\ out_output = in_inTriple[3]

====
